---- MODULE Spec2Model ----
(***************************************************************************)
(* The Map view of src/src/components/Map.tsx and the Itinerary page of    *)
(* src/src/pages/Itinerary.tsx as state machines.                          *)
(*                                                                         *)
(* One step of the model is one run-to-completion job of the browser's     *)
(* event loop: a render of the component together with the effects it      *)
(* commits, the continuation of an `await import("leaflet")`, or an        *)
(* animation-frame callback.  State set with a useState setter is queued   *)
(* and becomes visible to the component at its next render; values a       *)
(* closure captured stay as they were when the closure was created.        *)
(***************************************************************************)
EXTENDS Naturals, Sequences, FiniteSets, TLC

\* ------------------------------------------------------------------ bounds
MaxPlaces == 2        \* longest place list handed to the component
MaxPending == 2       \* continuations waiting for `await import` at once
MaxToasts == 2        \* failure notifications counted
MaxOrphans == 1       \* markers left on the map without a registry entry
MaxItems == 2         \* places the itinerary store is offered
MaxTimers == 2        \* timeouts of the clear confirmation pending at once
MaxNotices == 2       \* notifications of the Itinerary page kept

\* ------------------------------------------------------------------ inputs
NoId == 0             \* hoveredPlaceId null / undefined
NaN == 0              \* a malformed coordinate

\* The places the lists are drawn from: two well-formed places and one whose
\* location is malformed (L.marker throws "Invalid LatLng object" on it).
Catalogue == << [id |-> 1, loc |-> 1], [id |-> 3, loc |-> NaN], [id |-> 2, loc |-> 2] >>

Ids == {Catalogue[i].id : i \in DOMAIN Catalogue}

HoverIds == {NoId, 1, 2}

RECURSIVE Pick(_, _)
\* the subsequence of s at the index set I, in the order of s
Pick(s, I) ==
    IF s = <<>> THEN <<>>
    ELSE LET rest == Pick(Tail(s), {i - 1 : i \in I \ {1}})
         IN IF 1 \in I THEN <<Head(s)>> \o rest ELSE rest

\* place lists with pairwise distinct identifiers, at most MaxPlaces long
PlaceLists ==
    {Pick(Catalogue, I) : I \in {J \in SUBSET DOMAIN Catalogue : Cardinality(J) <= MaxPlaces}}

\* ------------------------------------------------------------------- state
VARIABLES
    mounted,          \* the component is mounted (mapRef.current is the container)
    places,           \* props.places of the latest render
    hoveredPlaceId,   \* props.hoveredPlaceId of the latest render
    state,            \* useState values the latest render saw
    queued,           \* useState values after the setState calls made since
    mapInstanceRef,   \* mapInstanceRef.current is a map
    markersRef,       \* markersRef.current: place id -> marker handle
    layer,            \* markers on the map: handle -> marker
    viewport,         \* the map's centre and zoom
    initQ,            \* initializeMap closures waiting at `await import`
    passQ,            \* updateMarkers closures waiting at `await import`
    frame,            \* the requested animation frame, if any
    leafletLoaded,    \* the leaflet module has been loaded once
    toasts,           \* toast.error calls made
    initRuns,         \* times initializeMap went past its guard (line 33)
    cancelled,        \* the hover effect's latest cleanup cancelled a frame not yet run
    itinerary,        \* the itinerary of the store: place ids in the order of their adds
    showConfirmClear, \* useState of the Itinerary page
    timers,           \* pending timeouts of line 43, oldest first; TRUE marks the
                      \* one started by the arming that is in force
    notices,          \* toast calls of the Itinerary page, oldest first
    netIds            \* the ids added and not removed since, as a set

mapVars == << mounted, places, hoveredPlaceId, state, queued, mapInstanceRef, markersRef,
              layer, viewport, initQ, passQ, frame, leafletLoaded, toasts, initRuns,
              cancelled >>

pageVars == << itinerary, showConfirmClear, timers, notices, netIds >>

vars == << mounted, places, hoveredPlaceId, state, queued, mapInstanceRef, markersRef,
           layer, viewport, initQ, passQ, frame, leafletLoaded, toasts, initRuns,
           cancelled, itinerary, showConfirmClear, timers, notices, netIds >>

Range(f) == {f[x] : x \in DOMAIN f}

IdsOf(ps) == {ps[i].id : i \in DOMAIN ps}

\* indices of the markers that show the highlighted icon
Highlighted == {h \in DOMAIN layer : layer[h].icon = "highlighted"}

\* ------------------------------------------------------------- the widget
IsValidLatLng(loc) == loc # NaN

\* L.marker(...).addTo(map): a new marker object on the map
FreshHandle(l) == CHOOSE h \in 1..(Cardinality(DOMAIN l) + 1) :
    h \notin DOMAIN l /\ \A k \in 1..(h - 1) : k \in DOMAIN l

\* marker.openPopup(): the map shows one popup at a time (autoClose)
OpenPopup(l, h) == [k \in DOMAIN l |-> [l[k] EXCEPT !.popup = (k = h)]]

\* map.fitBounds(featureGroup(markers).getBounds()): centre and zoom follow the box
FitBounds(l, hs) == [center |-> {l[h].loc : h \in hs}, zoom |-> {l[h].loc : h \in hs}]

\* map.setView(latlng, zoom) in the place of panTo: centre and zoom both move
PanToZooming(v, loc) == [center |-> {loc}, zoom |-> {loc}]

\* map.panTo(latlng): the centre moves, the zoom stays
PanTo(v, loc) == [v EXCEPT !.center = {loc}]

\* ------------------------------------------------------------------- Init
\* The Itinerary page after its first render, over a store created empty.
PageInit ==
    /\ itinerary = <<>>
    /\ showConfirmClear = FALSE
    /\ timers = <<>>
    /\ notices = <<>>
    /\ netIds = {}

\* The state after the first render and its effects: initializeMap waits for
\* the import; the other two effects returned at their guards.
Init ==
    /\ mounted = TRUE
    /\ places \in PlaceLists
    /\ hoveredPlaceId \in HoverIds
    /\ state = [defaultIcon |-> 0, highlightedIcon |-> 0, isMapInitialized |-> FALSE]
    /\ queued = state
    /\ mapInstanceRef = FALSE
    /\ markersRef = <<>>
    /\ layer = <<>>
    /\ viewport = [center |-> {}, zoom |-> {}]
    /\ initQ = << [isMounted |-> TRUE, isMapInitialized |-> FALSE] >>
    /\ passQ = <<>>
    /\ frame = <<>>
    /\ leafletLoaded = FALSE
    /\ toasts = 0
    /\ initRuns = 0
    /\ cancelled = FALSE
    /\ PageInit

\* ---------------------------------------------------------------- effects
\* cleanup of the initialization effect: isMounted = false
Unmounted(q) == [i \in DOMAIN q |-> [q[i] EXCEPT !.isMounted = FALSE]]

\* The initialization effect: deps [center, zoom, isMapInitialized].
InitEffect(q, old, new, centerNew) ==
    IF centerNew \/ new.isMapInitialized # old.isMapInitialized
    THEN Append(Unmounted(q), [isMounted |-> TRUE, isMapInitialized |-> new.isMapInitialized])
    ELSE q

\* the marker effect with deps [places] alone
MarkerEffectOnPlacesOnly(q, old, new, ps, placesNew) ==
    IF placesNew /\ new.isMapInitialized /\ mapInstanceRef /\ new.defaultIcon # 0
    THEN Append(q, [places |-> ps])
    ELSE q

\* the marker effect with a call that resumes before the calls started earlier
MarkerEffectNewestFirst(q, old, new, ps, placesNew) ==
    IF /\ placesNew \/ new.defaultIcon # old.defaultIcon
                    \/ new.isMapInitialized # old.isMapInitialized
       /\ new.isMapInitialized
       /\ mapInstanceRef /\ new.defaultIcon # 0
    THEN << [places |-> ps] >> \o q
    ELSE q

\* The marker effect: deps [places, defaultIcon, isMapInitialized]; updateMarkers
\* runs to its `await` when the guards of lines 148 and 101 let it.
MarkerEffect(q, old, new, ps, placesNew) ==
    IF /\ placesNew \/ new.defaultIcon # old.defaultIcon
                    \/ new.isMapInitialized # old.isMapInitialized
       /\ new.isMapInitialized
       /\ mapInstanceRef /\ new.defaultIcon # 0
    THEN Append(q, [places |-> ps])
    ELSE q

\* The hover effect: deps [hoveredPlaceId, defaultIcon, highlightedIcon]; its
\* cleanup cancels the frame the previous run requested.
HoverEffectRuns(old, new, oldHover, newHover) ==
    \/ newHover # oldHover
    \/ new.defaultIcon # old.defaultIcon
    \/ new.highlightedIcon # old.highlightedIcon

\* lines 154-187 with a cleanup that cancels nothing and a run that requests a
\* frame only when none is pending
HoverEffectKeepsPending(f, old, new, oldHover, newHover) ==
    IF HoverEffectRuns(old, new, oldHover, newHover) /\ f = <<>>
    THEN IF mapInstanceRef /\ new.defaultIcon # 0 /\ new.highlightedIcon # 0
         THEN << newHover >>
         ELSE <<>>
    ELSE f

\* lines 154-187: the cleanup of the previous run, then the new run
HoverEffect(f, old, new, oldHover, newHover) ==
    IF HoverEffectRuns(old, new, oldHover, newHover)
    THEN IF mapInstanceRef /\ new.defaultIcon # 0 /\ new.highlightedIcon # 0
         THEN << newHover >>
         ELSE <<>>
    ELSE f

\* A render with the given props, and the effects it commits.
RenderWith(ps, hover, centerNew) ==
    /\ UNCHANGED pageVars
    /\ mounted
    /\ LET iq == InitEffect(initQ, state, queued, centerNew)
           pq == MarkerEffect(passQ, state, queued, ps, ps # places)
       IN /\ Len(iq) + Len(pq) <= MaxPending
          /\ initQ' = iq
          /\ passQ' = pq
    /\ frame' = HoverEffect(frame, state, queued, hoveredPlaceId, hover)
    /\ cancelled' = IF HoverEffectRuns(state, queued, hoveredPlaceId, hover)
                    THEN frame # <<>>
                    ELSE cancelled
    /\ places' = ps
    /\ hoveredPlaceId' = hover
    /\ state' = queued
    /\ UNCHANGED << mounted, queued, mapInstanceRef, markersRef, layer, viewport,
                    leafletLoaded, toasts, initRuns >>

\* The parent renders the component, with the same or with new props.  The
\* place list is a new array exactly when its content changed; `center` is a
\* new array at every render when the parent leaves it to the default of line
\* 16, and the same array when the parent passes one it keeps.
Render ==
    \E ps \in PlaceLists, hover \in HoverIds, centerNew \in BOOLEAN :
        RenderWith(ps, hover, centerNew)

\* ---------------------------------------------------------- initializeMap
\* The module cannot be loaded: every import waiting for it rejects, and the
\* catch block of each waiting initializeMap call reports it (lines 85-88).
InitializeMapReject ==
    /\ UNCHANGED pageVars
    /\ initQ # <<>>
    /\ ~leafletLoaded
    /\ toasts + Len(initQ) <= MaxToasts
    /\ initQ' = <<>>
    /\ toasts' = toasts + Len(initQ)
    /\ UNCHANGED << mounted, places, hoveredPlaceId, state, queued, mapInstanceRef,
                    markersRef, layer, viewport, passQ, frame, leafletLoaded, initRuns,
                    cancelled >>

\* line 33 without its isMapInitialized test
InitGuardIgnoringFlag(c) == c.isMounted /\ mounted

\* line 33
InitGuard(c) == c.isMounted /\ mounted /\ ~c.isMapInitialized

\* The import resolves and initializeMap runs to its end.
InitializeMapResolve ==
    /\ UNCHANGED pageVars
    /\ initQ # <<>>
    /\ initQ' = Tail(initQ)
    /\ leafletLoaded' = TRUE
    /\ IF ~InitGuard(Head(initQ))
       THEN UNCHANGED << queued, mapInstanceRef, viewport, toasts, initRuns >>
       ELSE /\ initRuns' = initRuns + 1
            /\ IF mapInstanceRef
               THEN \* L.map throws "Map container is already initialized."
                    /\ toasts < MaxToasts
                    /\ toasts' = toasts + 1
                    /\ queued' = [queued EXCEPT !.defaultIcon = initRuns + 1,
                                                !.highlightedIcon = initRuns + 1]
                    /\ UNCHANGED << mapInstanceRef, viewport >>
               ELSE /\ queued' = [defaultIcon |-> initRuns + 1,
                                  highlightedIcon |-> initRuns + 1,
                                  isMapInitialized |-> TRUE]
                    /\ mapInstanceRef' = TRUE
                    /\ viewport' = [center |-> {}, zoom |-> {}]
                    /\ UNCHANGED toasts
    /\ UNCHANGED << mounted, places, hoveredPlaceId, state, markersRef, layer, passQ, frame,
                    cancelled >>

\* ---------------------------------------------------------- updateMarkers
RECURSIVE AddMarkers(_, _)
\* places.forEach(...) of lines 112-131, stopping at the first throw
AddMarkers(ps, st) ==
    IF ps = <<>> \/ st.threw THEN st
    ELSE LET place == Head(ps)
             h == FreshHandle(st.layer)
             marker == [id |-> place.id, loc |-> place.loc, icon |-> "default", popup |-> FALSE]
         IN IF ~IsValidLatLng(place.loc)
            THEN [st EXCEPT !.threw = TRUE]
            ELSE AddMarkers(Tail(ps),
                     [layer |-> (h :> marker) @@ st.layer,
                      reg |-> (place.id :> h) @@ st.reg,
                      threw |-> FALSE])

\* lines 107-109 with the registry emptied and no marker.remove()
ClearMarkersKeepingLayer(l, reg) == l

\* lines 107-109: every registered marker leaves the map, the registry is emptied
ClearMarkers(l, reg) == [h \in DOMAIN l \ Range(reg) |-> l[h]]

\* lines 107-131 without the clearing of lines 107-109
RebuildIncremental(ps) == AddMarkers(ps, [layer |-> layer, reg |-> markersRef, threw |-> FALSE])

\* lines 107-131
Rebuild(ps) == AddMarkers(ps, [layer |-> ClearMarkers(layer, markersRef), reg |-> <<>>, threw |-> FALSE])

\* lines 134-142 without the test of line 134
FitViewportAlways(ps, st, v) ==
    IF ~st.threw THEN FitBounds(st.layer, Range(st.reg)) ELSE v

\* lines 134-142, reached when nothing threw
FitViewport(ps, st, v) ==
    IF ~st.threw /\ Len(ps) > 0 THEN FitBounds(st.layer, Range(st.reg)) ELSE v

\* updateMarkers with the catch block of initializeMap (lines 85-88)
UpdateMarkersResolveToasting ==
    /\ UNCHANGED pageVars
    /\ passQ # <<>>
    /\ passQ' = Tail(passQ)
    /\ LET ps == Head(passQ).places
           st == Rebuild(ps)
       IN /\ layer' = st.layer
          /\ markersRef' = st.reg
          /\ viewport' = FitViewport(ps, st, viewport)
          /\ toasts' = IF st.threw THEN toasts + 1 ELSE toasts
    /\ UNCHANGED << mounted, places, hoveredPlaceId, state, queued, mapInstanceRef,
                    initQ, frame, leafletLoaded, initRuns, cancelled >>

\* The import resolves and updateMarkers runs to its end, or to its catch block
\* (which logs to the console and nothing else).
UpdateMarkersResolve ==
    /\ UNCHANGED pageVars
    /\ passQ # <<>>
    /\ passQ' = Tail(passQ)
    /\ LET ps == Head(passQ).places
           st == Rebuild(ps)
       IN /\ layer' = st.layer
          /\ markersRef' = st.reg
          /\ viewport' = FitViewport(ps, st, viewport)
    /\ UNCHANGED << mounted, places, hoveredPlaceId, state, queued, mapInstanceRef,
                    initQ, frame, leafletLoaded, toasts, initRuns, cancelled >>

\* -------------------------------------------------------- highlightMarker
\* lines 159-164 without the setIcon of line 161
ResetOthersPopupOnly(l, reg, hover) ==
    [h \in DOMAIN l |->
        IF \E id \in DOMAIN reg : reg[id] = h /\ id # hover
        THEN [l[h] EXCEPT !.popup = FALSE]
        ELSE l[h]]

\* lines 159-164
ResetOthers(l, reg, hover) ==
    [h \in DOMAIN l |->
        IF \E id \in DOMAIN reg : reg[id] = h /\ id # hover
        THEN [l[h] EXCEPT !.icon = "default", !.popup = FALSE]
        ELSE l[h]]

\* lines 157-179 without the reset loop of lines 159-164
HighlightMarkerKeepingOthers(l, reg, hover) ==
    IF hover # NoId /\ hover \in DOMAIN reg
    THEN OpenPopup([l EXCEPT ![reg[hover]].icon = "highlighted"], reg[hover])
    ELSE l

\* lines 157-179
HighlightMarker(l, reg, hover) ==
    LET reset == ResetOthers(l, reg, hover)
    IN IF hover # NoId /\ hover \in DOMAIN reg
       THEN OpenPopup([reset EXCEPT ![reg[hover]].icon = "highlighted"], reg[hover])
       ELSE reset

\* The animation frame fires and highlightMarker runs.
AnimationFrame ==
    /\ UNCHANGED pageVars
    /\ frame # <<>>
    /\ frame' = <<>>
    /\ LET hover == Head(frame)
       IN /\ layer' = HighlightMarker(layer, markersRef, hover)
          /\ viewport' = IF hover # NoId /\ hover \in DOMAIN markersRef
                         THEN PanTo(viewport, layer[markersRef[hover]].loc)
                         ELSE viewport
    /\ UNCHANGED << mounted, places, hoveredPlaceId, state, queued, mapInstanceRef,
                    markersRef, initQ, passQ, leafletLoaded, toasts, initRuns, cancelled >>

\* ------------------------------------------------------------------ unmount
\* The component leaves the page: the cleanups of lines 93-95 and 184-186 run.
Unmount ==
    /\ UNCHANGED pageVars
    /\ mounted
    /\ mounted' = FALSE
    /\ initQ' = Unmounted(initQ)
    /\ frame' = <<>>
    /\ cancelled' = (frame # <<>>)
    /\ UNCHANGED << places, hoveredPlaceId, state, queued, mapInstanceRef, markersRef,
                    layer, viewport, passQ, leafletLoaded, toasts, initRuns >>

Next ==
    \/ Render
    \/ InitializeMapReject
    \/ InitializeMapResolve
    \/ UpdateMarkersResolve
    \/ AnimationFrame
    \/ Unmount

Spec == Init /\ [][Next]_vars

\* A setState call makes React render the component again, with the props it has.
StateRender ==
    /\ queued # state
    /\ \E centerNew \in BOOLEAN : RenderWith(places, hoveredPlaceId, centerNew)

\* The parent's renders when the place list changes no more once the map exists.
RenderSettled ==
    \E ps \in PlaceLists, hover \in HoverIds, centerNew \in BOOLEAN :
        /\ mapInstanceRef => ps = places
        /\ RenderWith(ps, hover, centerNew)

NextSettled ==
    \/ RenderSettled
    \/ InitializeMapReject
    \/ InitializeMapResolve
    \/ UpdateMarkersResolve
    \/ AnimationFrame
    \/ Unmount

\* React renders after a state change, a pending import settles, a requested
\* animation frame fires.
Fairness ==
    /\ WF_vars(StateRender)
    /\ WF_vars(InitializeMapResolve)
    /\ WF_vars(UpdateMarkersResolve)
    /\ WF_vars(AnimationFrame)

FairSpec == Init /\ [][NextSettled]_vars /\ Fairness

\* ------------------------------------------- lists with a repeated identifier
\* a place that carries the identifier of the first place of the catalogue
Twin == [id |-> 1, loc |-> 2]

\* the place lists of a parent that does not keep the identifiers distinct
DupLists ==
    {Pick(Catalogue \o << Twin >>, I) :
        I \in {J \in SUBSET (1..(Len(Catalogue) + 1)) : Cardinality(J) <= MaxPlaces}}

HasDup(ps) == Cardinality(IdsOf(ps)) < Len(ps)

\* markers on the map that the registry does not hold
Orphans == DOMAIN layer \ Range(markersRef)

\* The parent renders the component with such a list, the hover selection
\* staying what it is and `center` being an array the parent keeps.
RenderDup ==
    \E ps \in DupLists :
        /\ HasDup(ps) =>
              Cardinality(Orphans)
                + Cardinality({i \in DOMAIN passQ : HasDup(passQ[i].places)}) < MaxOrphans
        /\ RenderWith(ps, hoveredPlaceId, FALSE)

NextDup ==
    \/ RenderDup
    \/ InitializeMapReject
    \/ InitializeMapResolve
    \/ UpdateMarkersResolve
    \/ AnimationFrame
    \/ Unmount

SpecDup == Init /\ [][NextDup]_vars

\* ------------------------------------------------------- the itinerary store
\* The store of @/context/ItineraryContext, after its contract: add inserts a
\* place whose id is not present, remove deletes the entry of an id, clear
\* empties the itinerary.
StoreIds == 1..MaxItems

\* add that inserts without looking for the id
StoreAddAlways(it, id) == Append(it, id)

StoreAdd(it, id) == IF id \in Range(it) THEN it ELSE Append(it, id)

StoreRemove(it, id) == SelectSeq(it, LAMBDA x : x # id)

StoreClear(it) == <<>>

\* Another consumer of the store adds a place.
AddToItinerary(id) ==
    /\ itinerary' = StoreAdd(itinerary, id)
    /\ netIds' = netIds \cup {id}
    /\ UNCHANGED << showConfirmClear, timers, notices >>
    /\ UNCHANGED mapVars

\* Another consumer of the store removes a place.
RemoveFromItinerary(id) ==
    /\ itinerary' = StoreRemove(itinerary, id)
    /\ netIds' = netIds \ {id}
    /\ UNCHANGED << showConfirmClear, timers, notices >>
    /\ UNCHANGED mapVars

StoreStep ==
    \E id \in StoreIds : AddToItinerary(id) \/ RemoveFromItinerary(id)

\* ------------------------------------------------------- the Itinerary page
\* A render follows every handler and every timer callback before the next
\* one runs, so a handler reads the state the one before it has set.

\* lines 13-22
HandleShare ==
    /\ Len(notices) < MaxNotices
    /\ notices' = Append(notices,
                         IF Len(itinerary) = 0
                         THEN [call |-> "error", about |-> "share"]
                         ELSE [call |-> "success", about |-> "share"])
    /\ UNCHANGED << itinerary, showConfirmClear, timers, netIds >>
    /\ UNCHANGED mapVars

\* lines 24-33
HandleDownload ==
    /\ Len(notices) < MaxNotices
    /\ notices' = Append(notices,
                         IF Len(itinerary) = 0
                         THEN [call |-> "error", about |-> "download"]
                         ELSE [call |-> "success", about |-> "download"])
    /\ UNCHANGED << itinerary, showConfirmClear, timers, netIds >>
    /\ UNCHANGED mapVars

\* the arming in force has ended: no pending timeout is its own any more
Retired(q) == [i \in DOMAIN q |-> FALSE]

\* lines 35-47 with the branch of line 36 taken whatever the flag is
HandleClearItineraryAtOnce ==
    /\ itinerary' = StoreClear(itinerary)
    /\ netIds' = {}
    /\ showConfirmClear' = FALSE
    /\ timers' = Retired(timers)
    /\ UNCHANGED notices
    /\ UNCHANGED mapVars

\* lines 35-47
HandleClearItinerary ==
    /\ IF showConfirmClear
       THEN /\ itinerary' = StoreClear(itinerary)
            /\ netIds' = {}
            /\ showConfirmClear' = FALSE
            /\ timers' = Retired(timers)
       ELSE /\ Len(timers) < MaxTimers
            /\ showConfirmClear' = TRUE
            /\ timers' = Append(timers, TRUE)
            /\ UNCHANGED << itinerary, netIds >>
    /\ UNCHANGED notices
    /\ UNCHANGED mapVars

\* lines 43-45: the oldest pending timeout fires (all have the same delay)
TimerFires ==
    /\ timers # <<>>
    /\ timers' = Retired(Tail(timers))
    /\ showConfirmClear' = FALSE
    /\ UNCHANGED << itinerary, notices, netIds >>
    /\ UNCHANGED mapVars

\* The buttons of lines 62-100 are disabled while the itinerary is empty.
ClickShare == Len(itinerary) # 0 /\ HandleShare

ClickDownload == Len(itinerary) # 0 /\ HandleDownload

ClickClear == Len(itinerary) # 0 /\ HandleClearItinerary

\* the page over an empty store, its Map not rendered
PageStart == Init /\ places = <<>> /\ hoveredPlaceId = NoId

\* The page as a user drives it.
PageNext ==
    \/ StoreStep
    \/ ClickShare
    \/ ClickDownload
    \/ ClickClear
    \/ TimerFires

PageSpec == PageStart /\ [][PageNext]_vars

\* The handlers of the page called in any state, whatever the buttons allow.
HandlerNext ==
    \/ StoreStep
    \/ HandleShare
    \/ HandleDownload
    \/ HandleClearItinerary
    \/ TimerFires

HandlerSpec == PageStart /\ [][HandlerNext]_vars

TypeOK ==
    /\ mounted \in BOOLEAN
    /\ places \in PlaceLists
    /\ hoveredPlaceId \in HoverIds
    /\ toasts \in 0..MaxToasts
    /\ Len(initQ) + Len(passQ) <= MaxPending
    /\ Len(frame) <= 1
    /\ DOMAIN markersRef \subseteq Ids
    /\ Range(markersRef) \subseteq DOMAIN layer

\* ------------------------------------------------------------ properties
AllValid(ps) == \A i \in DOMAIN ps : IsValidLatLng(ps[i].loc)

LocsOf(ps) == {ps[i].loc : i \in DOMAIN ps}

\* the step in which the oldest waiting updateMarkers call resumes
PassStep == passQ # <<>> /\ passQ' = Tail(passQ)

\* ... and reaches its end without a throw
PassCompletes == PassStep /\ AllValid(Head(passQ).places)

\* C1 (as stated): whenever a marker-synchronization pass completes, the
\* registry's key set equals the identifier set of the latest `places` input.
C1_KeysEqualLatestList ==
    [][PassCompletes => DOMAIN markersRef' = IdsOf(places')]_vars

\* C1 (amended): whenever a marker-synchronization pass completes, the
\* registry's key set equals the identifier set of the place list that pass
\* captured when it was started; that is the latest `places` input when no
\* other pass is waiting behind it.
C1_KeysEqualCapturedList ==
    [][PassCompletes =>
        /\ DOMAIN markersRef' = IdsOf(Head(passQ).places)
        /\ Len(passQ) = 1 => DOMAIN markersRef' = IdsOf(places')]_vars

\* a pass for [p1, p2] has completed while the list is already another one,
\* whose own pass still waits
C1_Witness ==
    /\ DOMAIN markersRef = {1, 2}
    /\ Len(places) = 1
    /\ Len(passQ) = 1

\* C2: once mapInstanceRef is set, no run of the initialization effect goes
\* past the guard of line 33 again: no second L.map on the container, no
\* replacement of the two icons.
C2_NoReinitialization ==
    [][mapInstanceRef =>
        /\ initRuns' = initRuns
        /\ queued'.defaultIcon = queued.defaultIcon
        /\ queued'.highlightedIcon = queued.highlightedIcon]_vars

\* the map exists, the component has rendered with isMapInitialized = true and
\* the initializeMap call of that render has resumed and returned
C2_Witness ==
    /\ mounted
    /\ mapInstanceRef
    /\ state.isMapInitialized
    /\ leafletLoaded
    /\ initQ = <<>>
    /\ initRuns = 1

\* C3 (as stated): when the animation frame after a hover change runs and the
\* hover selection is an identifier of the current place list, exactly the
\* marker of that identifier shows the highlighted icon.
C3_HoveredMarkerHighlightedAfterFrame ==
    [][(AnimationFrame /\ hoveredPlaceId \in IdsOf(places)) =>
        /\ hoveredPlaceId \in DOMAIN markersRef'
        /\ Highlighted' = {markersRef'[hoveredPlaceId]}]_vars

\* C4: when the animation frame runs, every marker of another identifier than
\* the hover selection shows the default icon with its popup closed; with a
\* hover selection that is null or names no registered marker, no marker
\* shows the highlighted icon.
C4_NoHighlightWithoutMatch ==
    [][AnimationFrame =>
        /\ \A h \in DOMAIN layer' :
              layer'[h].id # hoveredPlaceId =>
                  layer'[h].icon = "default" /\ ~layer'[h].popup
        /\ (hoveredPlaceId = NoId \/ hoveredPlaceId \notin DOMAIN markersRef)
              => Highlighted' = {}]_vars

\* no hover selection, its frame has run, nothing is highlighted, and the
\* centre still is where an earlier highlight panned it to
C4_Witness ==
    /\ mounted
    /\ state.highlightedIcon # 0
    /\ hoveredPlaceId = NoId
    /\ frame = <<>>
    /\ Cardinality(DOMAIN markersRef) = 2
    /\ Highlighted = {}
    /\ viewport.center # viewport.zoom

\* C5: a highlight pass only ever runs with the hover selection that is
\* current when it runs (a pending pass is cancelled when the selection
\* changes), so the only marker it can highlight is the current selection's.
C5_PassRunsWithCurrentHover ==
    [][(frame # <<>> /\ AnimationFrame) =>
        /\ Head(frame) = hoveredPlaceId
        /\ \A h \in Highlighted' : layer'[h].id = hoveredPlaceId]_vars

\* a pending pass was cancelled by the change to 2, the pass for 2 has run
\* and marker 2 alone is highlighted
C5_Witness ==
    /\ mounted
    /\ cancelled
    /\ frame = <<>>
    /\ hoveredPlaceId = 2
    /\ DOMAIN markersRef = {1, 2}
    /\ Highlighted = {markersRef[2]}

\* the pass for list L has run and nothing waits behind it
Synced(L) ==
    /\ state.isMapInitialized
    /\ passQ = <<>>
    /\ DOMAIN markersRef = IdsOf(L)
    /\ Range(markersRef) = DOMAIN layer
    /\ Cardinality(DOMAIN layer) = Len(L)

\* C6: while no map has been created, no marker is created and no pass is
\* started, whatever place lists are supplied; and once the map has been
\* created, with no further change of the place list, a pass for the current
\* list eventually has run and (the places being well-formed) has registered
\* one marker per place, unless the component is unmounted before.
C6_DeferredThenSynced ==
    /\ [](~mapInstanceRef => (DOMAIN layer = {} /\ DOMAIN markersRef = {} /\ passQ = <<>>))
    /\ (mapInstanceRef /\ AllValid(places)) ~> (~mounted \/ Synced(places))

\* the list given before the map existed has its two markers
C6_Witness ==
    /\ mounted
    /\ Len(places) = 2
    /\ Synced(places)
    /\ toasts = 0

\* C7 (as stated): once the failure notification has been shown, no marker is
\* ever on the surface or in the registry.
C7_InertAfterFailure ==
    toasts > 0 => (DOMAIN layer = {} /\ DOMAIN markersRef = {})

\* C8 (as stated): after a failed initialization attempt no further
\* initializeMap call is started and no further notification is shown.
C8_NoRetryAfterFailure ==
    [][toasts > 0 => (Len(initQ') <= Len(initQ) /\ toasts' = toasts)]_vars

\* C9: a pass with an empty list leaves no marker registered or on the map
\* and the viewport as it was; a completed pass with a non-empty list fits
\* centre and zoom to the places of the list.
C9_EmptyListKeepsViewport ==
    [][PassStep =>
        IF Head(passQ).places = <<>>
        THEN /\ DOMAIN markersRef' = {}
             /\ DOMAIN layer' = {}
             /\ viewport' = viewport
        ELSE AllValid(Head(passQ).places) =>
                /\ viewport'.center = LocsOf(Head(passQ).places)
                /\ viewport'.zoom = LocsOf(Head(passQ).places)]_vars

\* the pass for the empty list has run after one that had fitted the viewport
C9_Witness ==
    /\ mapInstanceRef
    /\ state.isMapInitialized
    /\ places = <<>>
    /\ passQ = <<>>
    /\ DOMAIN layer = {}
    /\ viewport.zoom # {}

\* C10: no pass, failed or not, shows a notification; every place-list change
\* on an initialized map starts a new pass, whatever happened to the passes
\* before; and a pass over well-formed places completes with exactly their
\* markers, whatever the pass before it left behind.
C10_PassFailureSilentAndRecoverable ==
    [][/\ PassStep => toasts' = toasts
       /\ (mapInstanceRef /\ places' # places)
             => passQ' = Append(passQ, [places |-> places'])
       /\ PassCompletes =>
             /\ DOMAIN markersRef' = IdsOf(Head(passQ).places)
             /\ Range(markersRef') = DOMAIN layer']_vars

\* the pass for the current list has thrown at its malformed place: nothing
\* was notified and the registry holds only the places before it
C10_Witness ==
    /\ state.isMapInitialized
    /\ passQ = <<>>
    /\ ~AllValid(places)
    /\ Len(places) = 2
    /\ toasts = 0
    /\ DOMAIN markersRef # IdsOf(places)

\* C13: a highlight pass changes icons, popups and the viewport centre and
\* nothing else: the markers on the map, their places, the registry and the
\* zoom are after it what they were before; and after a marker pass no marker
\* shows the highlighted icon.
C13_HighlightAndPassKeepApart ==
    [][/\ AnimationFrame =>
            /\ DOMAIN layer' = DOMAIN layer
            /\ \A h \in DOMAIN layer :
                  layer'[h].id = layer[h].id /\ layer'[h].loc = layer[h].loc
            /\ markersRef' = markersRef
            /\ viewport'.zoom = viewport.zoom
       /\ PassStep => Highlighted' = {}]_vars

\* a highlight pass has highlighted one of two markers and panned to it, the
\* zoom still being the one the marker pass fitted to both
C13_Witness ==
    /\ frame = <<>>
    /\ passQ = <<>>
    /\ Cardinality(DOMAIN markersRef) = 2
    /\ Cardinality(Highlighted) = 1
    /\ viewport.zoom = {1, 2}
    /\ Cardinality(viewport.center) = 1

\* C14 (as stated): while the hover selection stays on an identifier of the
\* place list, the marker of that identifier stays highlighted across a
\* marker pass: when the marker of the hover selection is highlighted, no
\* highlight pass is pending, and the last waiting marker pass completes for
\* a list that still has the hovered place, that place's marker is
\* highlighted after the pass.
C14_HighlightSurvivesPass ==
    [][(/\ PassCompletes
        /\ Len(passQ) = 1
        /\ frame = <<>>
        /\ hoveredPlaceId \in IdsOf(places)
        /\ hoveredPlaceId \in DOMAIN markersRef
        /\ markersRef[hoveredPlaceId] \in Highlighted
        /\ hoveredPlaceId \in IdsOf(Head(passQ).places)) =>
            /\ hoveredPlaceId \in DOMAIN markersRef'
            /\ markersRef'[hoveredPlaceId] \in Highlighted']_vars

\* C15: a render never withdraws or reorders the passes that wait, the pass
\* of the latest place list is the last of them, and each pass that
\* completes installs the markers of the list it captured; so when no pass
\* waits on an initialized map, the registry's keys are the identifiers of
\* the latest place list (its places being well-formed).
C15_LatestListWins ==
    /\ [](passQ # <<>> => passQ[Len(passQ)].places = places)
    /\ []((state.isMapInitialized /\ passQ = <<>> /\ AllValid(places))
              => DOMAIN markersRef = IdsOf(places))
    /\ [][/\ passQ' # passQ =>
               \/ PassStep
               \/ passQ' = Append(passQ, [places |-> places'])
          /\ PassCompletes => DOMAIN markersRef' = IdsOf(Head(passQ).places)]_vars

\* the place list changed twice on an initialized map: the pass of the
\* superseded list [p1, p2] still waits, ahead of the pass of the latest list
C15_Witness ==
    /\ state.isMapInitialized
    /\ Len(passQ) = 2
    /\ IdsOf(passQ[1].places) = {1, 2}
    /\ passQ[2].places = places
    /\ Len(places) = 1
    /\ DOMAIN markersRef = {}

\* C17: in every reachable state at most one marker shows the highlighted icon.
C17_AtMostOneHighlighted ==
    Cardinality(Highlighted) <= 1

\* marker 2 still is highlighted while the hover selection has moved to
\* place 1 and the pass for it waits for its frame
C17_Witness ==
    /\ DOMAIN markersRef = {1, 2}
    /\ Highlighted = {markersRef[2]}
    /\ hoveredPlaceId = 1
    /\ frame = << 1 >>

\* C16 (as stated): after every marker pass the markers on the map are the
\* markers of the registry, whatever the place list, also with two places of
\* one identifier, also when the pass fails part-way.
C16_NoOrphanAfterPass ==
    [][PassStep => DOMAIN layer' = Range(markersRef')]_vars

\* C16 (amended): a marker pass over a list of pairwise distinct identifiers,
\* started with the markers on the map being those of the registry, ends with
\* the markers on the map being those of the registry, also when it fails
\* part-way; so no marker is orphaned as long as no list with a repeated
\* identifier has been passed.
C16_NoOrphanWithDistinctIds ==
    [][(PassStep /\ Orphans = {} /\ ~HasDup(Head(passQ).places))
          => DOMAIN layer' = Range(markersRef')]_vars

\* the pass of [p1, malformed] has failed at its second place, after a pass
\* that had put two markers on the map: the marker of p1 is on the map and in
\* the registry, and nothing else
C16_Witness ==
    /\ state.isMapInitialized
    /\ passQ = <<>>
    /\ Len(places) = 2
    /\ ~AllValid(places)
    /\ DOMAIN markersRef = {1}
    /\ DOMAIN layer = Range(markersRef)
    /\ viewport.zoom = {1, 2}

C12_ItineraryIsNetOfAddsAndRemoves ==
    /\ [](Range(itinerary) = netIds /\ Cardinality(Range(itinerary)) = Len(itinerary))
    /\ [][\A id \in Range(itinerary) : AddToItinerary(id) => itinerary' = itinerary]_vars

\* place 2 was added before place 1 and both are in the itinerary, once each
C12_Witness ==
    /\ itinerary = << 2, 1 >>
    /\ netIds = {1, 2}

\* C18: a click on the clear button while showConfirmClear is false sets the
\* flag and leaves the itinerary as it is; a click while it is true empties
\* the itinerary and resets the flag; no other operation of the page changes
\* the itinerary.
C18_ClearedOnlyWhenArmed ==
    [][/\ (ClickClear /\ ~showConfirmClear) => (showConfirmClear' /\ itinerary' = itinerary)
       /\ (ClickClear /\ showConfirmClear) => (itinerary' = <<>> /\ ~showConfirmClear')
       /\ (ClickShare \/ ClickDownload \/ TimerFires) => itinerary' = itinerary]_vars

\* the arming click and the confirming click have been made: the itinerary
\* is empty, the flag is reset and the timeout of the arming click still is
\* pending
C18_Witness ==
    /\ itinerary = <<>>
    /\ ~showConfirmClear
    /\ timers = << FALSE >>
    /\ notices = <<>>

\* C19 (as stated): showConfirmClear goes from true to false only by a
\* confirming click or by the timeout that the arming click in force started.
C19_DisarmedOnlyByOwnTimer ==
    [][(showConfirmClear /\ ~showConfirmClear') =>
          \/ ClickClear
          \/ (timers # <<>> /\ Head(timers) /\ TimerFires)]_vars
====
